---------------------------- MODULE Spec2Model ----------------------------
(***************************************************************************)
(* A model of solana-dex-tools: the single-account cache ManagedAccount<T> *)
(* (src/src/common/state.rs) and the OrcaWhirlpool pool built from such    *)
(* accounts (src/src/orca/pool.rs, src/src/orca/pda.rs).                   *)
(*                                                                         *)
(* Spec      one ManagedAccount, concurrent update() calls and a reader    *)
(* SpecSeq   the same account, update() calls one after another            *)
(* SpecPool  construction of an OrcaWhirlpool followed by refresh() calls  *)
(* SpecPoolConc  the same, with refresh() calls that overlap               *)
(* SpecPda   calls of the address derivation functions of orca/pda.rs      *)
(* SpecNew   new_initialized_from_bytes on any arguments, then update()    *)
(* SpecGetFirst  the account of SpecSeq read by get() and then bytes()     *)
(* SpecBytesFirst  the same account read by bytes() and then get()         *)
(* SpecChunks  the construction alone, for providers of several limits     *)
(* SpecAnyLength  refresh() answered with any number of entries            *)
(***************************************************************************)
EXTENDS Integers, Sequences, FiniteSets, TLC

\* ------------------------------------------------------------------------
\* Bounds of the model
\* ------------------------------------------------------------------------

\* Number of update() calls issued on the account in one behaviour.
MaxUpdates == 3

\* Number of refresh() calls issued on the pool in one behaviour.
MaxRefresh == 2

\* Number of calls of the pda functions in one behaviour.
MaxDerive == 2

\* refresh() calls answered with a response of any length
MaxShortRefresh == 1

\* ------------------------------------------------------------------------
\* Byte buffers and the decoders (Deserializable::from_bytes)
\* ------------------------------------------------------------------------

\* Option<T>: None is the empty sequence, Some(x) is <<x>>.
None == <<>>

Some(x) == <<x>>

IsSome(o) == Len(o) = 1

\* A byte buffer is a tuple whose first element is the layout tag of the
\* account kind and whose other elements are the payload.  A Mint, TickArray
\* or Oracle buffer carries one payload element, a Whirlpool buffer three
\* (token_mint_a, token_mint_b, tick_spacing).
PayloadLen(kind) == IF kind = "Whirlpool" THEN 3 ELSE 1

\* T::from_bytes: the decoder of an account kind.  It rejects a buffer of
\* the wrong length or layout and otherwise returns the typed value.
FromBytes(kind, bytes) ==
    IF Len(bytes) = 1 + PayloadLen(kind) /\ bytes[1] = kind
    THEN IF kind = "Whirlpool"
         THEN Some([kind |-> kind, token_mint_a |-> bytes[2],
                    token_mint_b |-> bytes[3], tick_spacing |-> bytes[4]])
         ELSE Some([kind |-> kind, data |-> bytes[2]])
    ELSE None

\* ------------------------------------------------------------------------
\* ManagedAccount<T>
\* ------------------------------------------------------------------------

\* Mutant of NewInitializedFromBytes: the account starts at update_slot 0.
NewInitializedFromBytesAtZero(kind, pubkey, initial_bytes, initial_time) ==
    LET initial_deserialized == FromBytes(kind, initial_bytes)
    IN  IF ~IsSome(initial_deserialized)
        THEN None
        ELSE Some([kind             |-> kind,
                   pubkey           |-> pubkey,
                   bytes            |-> initial_bytes,
                   deserialized     |-> initial_deserialized[1],
                   update_slot      |-> 0,
                   last_update_time |-> initial_time,
                   bytes_gen        |-> 0,
                   bytes_time       |-> initial_time,
                   deserialized_gen |-> 0])

\* ManagedAccount::new_initialized_from_bytes: Err (None) when the bytes do
\* not decode, otherwise the account at update_slot 1.  bytes_gen,
\* deserialized_gen and bytes_time are history fields, not fields of the
\* struct: the number of stores each ArcSwap slot has taken since
\* construction, and the time argument of the call whose bytes are stored.
NewInitializedFromBytes(kind, pubkey, initial_bytes, initial_time) ==
    LET initial_deserialized == FromBytes(kind, initial_bytes)
    IN  IF ~IsSome(initial_deserialized)
        THEN None
        ELSE Some([kind             |-> kind,
                   pubkey           |-> pubkey,
                   bytes            |-> initial_bytes,
                   deserialized     |-> initial_deserialized[1],
                   update_slot      |-> 1,
                   last_update_time |-> initial_time,
                   bytes_gen        |-> 0,
                   bytes_time       |-> initial_time,
                   deserialized_gen |-> 0])

\* self.bytes.store(Arc::new(new_bytes))
StoreBytes(a, new_bytes) ==
    [a EXCEPT !.bytes = new_bytes, !.bytes_gen = @ + 1]

\* The same store, by a call whose time argument is update_time.
StoreBytesOf(a, new_bytes, update_time) ==
    [StoreBytes(a, new_bytes) EXCEPT !.bytes_time = update_time]

\* self.deserialized.store(Arc::new(new_deserialized))
StoreDeserialized(a, new_deserialized) ==
    [a EXCEPT !.deserialized = new_deserialized, !.deserialized_gen = @ + 1]

\* Mutant of FetchAddUpdateSlot: the increment is forgotten.
FetchAddUpdateSlotForgotten(a) == a

\* self.update_slot.fetch_add(1, Ordering::Relaxed).  The counter is an
\* AtomicU64 and wraps at 2^64, which no behaviour of a bounded number of
\* updates reaches.
FetchAddUpdateSlot(a) == [a EXCEPT !.update_slot = @ + 1]

\* self.last_update_time.store(update_time, Ordering::Relaxed)
StoreLastUpdateTime(a, update_time) ==
    [a EXCEPT !.last_update_time = update_time]

\* AccountState::update as one call: decode, then the four stores in order.
\* Returns the result and the account afterwards.
Update(a, new_bytes, update_time) ==
    LET new_deserialized == FromBytes(a.kind, new_bytes)
    IN  IF ~IsSome(new_deserialized)
        THEN [ok |-> FALSE, account |-> a]
        ELSE [ok |-> TRUE,
              account |->
                 StoreLastUpdateTime(
                    FetchAddUpdateSlot(
                       StoreDeserialized(
                          StoreBytesOf(a, new_bytes, update_time),
                          new_deserialized[1])),
                    update_time)]

\* ------------------------------------------------------------------------
\* Address derivation (orca/pda.rs)
\* ------------------------------------------------------------------------

\* abs_max_tick_idx
AbsMaxTickIdx == 443636

\* orca_whirlpools_core::TICK_ARRAY_SIZE
TickArraySize == 88

\* i32 division, which truncates toward zero.
TruncDiv(a, b) ==
    LET q == (IF a < 0 THEN -a ELSE a) \div (IF b < 0 THEN -b ELSE b)
    IN  IF (a < 0) = (b < 0) THEN q ELSE -q

\* Mutant of DivFloor: the quotient is rounded toward zero.
DivTowardZero(a, b) == TruncDiv(a, b)

\* num_integer::Integer::div_floor for i32: the truncated quotient, less one
\* when the remainder and the divisor have opposite signs.
DivFloor(a, b) ==
    LET d == TruncDiv(a, b)
        r == a - d * b
    IN  IF (r > 0 /\ b < 0) \/ (r < 0 /\ b > 0) THEN d - 1 ELSE d

\* Pubkey::try_find_program_address over the whirlpool program: an address
\* per seed list, or None for the seeds in nosol, which have no solution.
TryFindProgramAddress(seeds, nosol) ==
    IF seeds \in nosol THEN None ELSE Some(seeds)

\* get_oracle_address
GetOracleAddress(pool_pubkey, nosol) ==
    TryFindProgramAddress(<<"oracle", pool_pubkey[2], 0>>, nosol)

\* get_tick_array_address
GetTickArrayAddress(pool_pubkey, start_tick_index, nosol) ==
    TryFindProgramAddress(<<"tick_array", pool_pubkey[2], start_tick_index>>,
                          nosol)

\* The while loop of get_tick_array_addresses: Err (None) at the first start
\* index with no address, otherwise the addresses pushed so far and the rest.
RECURSIVE TickArrayLoop(_, _, _, _, _, _)
TickArrayLoop(whirlpool_pubkey, curr_start_tick_idx, largest_start_tick_idx, tick_array_width, tick_array_pubkeys, nosol) ==
    IF curr_start_tick_idx <= largest_start_tick_idx
    THEN LET tick_array_address ==
                GetTickArrayAddress(whirlpool_pubkey, curr_start_tick_idx, nosol)
         IN  IF ~IsSome(tick_array_address)
             THEN None
             ELSE TickArrayLoop(whirlpool_pubkey,
                                curr_start_tick_idx + tick_array_width,
                                largest_start_tick_idx, tick_array_width,
                                Append(tick_array_pubkeys, tick_array_address[1]),
                                nosol)
    ELSE Some(tick_array_pubkeys)

\* get_tick_array_addresses
GetTickArrayAddresses(whirlpool_pubkey, tick_spacing, nosol) ==
    LET tick_array_width == TickArraySize * tick_spacing
        curr_start_tick_idx ==
            DivFloor(-AbsMaxTickIdx, tick_array_width) * tick_array_width
        largest_start_tick_idx ==
            DivFloor(AbsMaxTickIdx, tick_array_width) * tick_array_width
    IN  TickArrayLoop(whirlpool_pubkey, curr_start_tick_idx,
                      largest_start_tick_idx, tick_array_width, <<>>, nosol)

\* ------------------------------------------------------------------------
\* OrcaWhirlpool (orca/pool.rs)
\* ------------------------------------------------------------------------

Min(a, b) == IF a <= b THEN a ELSE b

\* Pool::accounts: whirlpool, mint_a, mint_b, the tick arrays, the oracle.
Accounts(p) ==
    <<p.whirlpool, p.mint_a, p.mint_b>> \o p.tick_arrays \o p.oracle

\* Mutant of AccountKeys: the oracle's key is collected first, the other
\* keys after it.
AccountKeysOracleFirst(p) ==
    [i \in 1..Len(p.oracle) |-> p.oracle[i].pubkey]
       \o [i \in 1..(3 + Len(p.tick_arrays)) |-> Accounts(p)[i].pubkey]

\* The pubkeys of accounts(), as refresh() collects them.
AccountKeys(p) == [i \in 1..Len(Accounts(p)) |-> Accounts(p)[i].pubkey]

\* The pool with the i-th account of accounts() replaced by a: the members
\* are shared (Arc), so an update through accounts() is an update of the
\* pool's own field.
WithAccount(p, i, a) ==
    IF i = 1 THEN [p EXCEPT !.whirlpool = a]
    ELSE IF i = 2 THEN [p EXCEPT !.mint_a = a]
    ELSE IF i = 3 THEN [p EXCEPT !.mint_b = a]
    ELSE IF i <= 3 + Len(p.tick_arrays)
         THEN [p EXCEPT !.tick_arrays[i - 3] = a]
         ELSE [p EXCEPT !.oracle = Some(a)]

\* HashMap::insert
MapInsert(m, k, v) ==
    [x \in DOMAIN m \cup {k} |-> IF x = k THEN v ELSE m[x]]

\* Mutant of MapRemove: a key that is not in the map yields a default
\* record instead of None.
MapRemoveOrDefault(m, k) ==
    IF k \in DOMAIN m
    THEN [value |-> Some(m[k]), map |-> [x \in DOMAIN m \ {k} |-> m[x]]]
    ELSE [value |-> Some([bytes |-> <<"Mint", 0>>, time |-> 0]), map |-> m]

\* HashMap::remove: the value moved out (an Option) and the map left.
MapRemove(m, k) ==
    IF k \in DOMAIN m
    THEN [value |-> Some(m[k]), map |-> [x \in DOMAIN m \ {k} |-> m[x]]]
    ELSE [value |-> None, map |-> m]

\* Mutant of InsertChunk: an entry is stamped with the time at which it is
\* put into the map, which is after the time the provider reported.
RECURSIVE InsertChunkStampedAtWrite(_, _, _, _, _)
InsertChunkStampedAtWrite(account_map, chunk, accounts, accounts_time, i) ==
    IF i > Len(accounts)
    THEN account_map
    ELSE InsertChunkStampedAtWrite(
                     IF IsSome(accounts[i])
                     THEN MapInsert(account_map, chunk[i],
                                    [bytes |-> accounts[i][1],
                                     time |-> accounts_time + 1])
                     ELSE account_map,
                     chunk, accounts, accounts_time, i + 1)

\* The inner loop of new_initialized_from_rpc over one response: every
\* entry that is Some goes into account_map under chunk[i].
RECURSIVE InsertChunk(_, _, _, _, _)
InsertChunk(account_map, chunk, accounts, accounts_time, i) ==
    IF i > Len(accounts)
    THEN account_map
    ELSE InsertChunk(IF IsSome(accounts[i])
                     THEN MapInsert(account_map, chunk[i],
                                    [bytes |-> accounts[i][1],
                                     time |-> accounts_time])
                     ELSE account_map,
                     chunk, accounts, accounts_time, i + 1)

\* The tick-array loop of new_initialized_from_rpc: a cache per address
\* found in the map, a FailedAccount per address not found, Err (ok FALSE)
\* when bytes that were found do not decode.
RECURSIVE BuildTickArrays(_, _, _, _, _)
BuildTickArrays(tick_arrays_pubkeys, i, account_map, tick_arrays, failures) ==
    IF i > Len(tick_arrays_pubkeys)
    THEN [ok |-> TRUE, tick_arrays |-> tick_arrays, failures |-> failures]
    ELSE LET ta_pubkey == tick_arrays_pubkeys[i]
             got == MapRemove(account_map, ta_pubkey)
         IN  IF IsSome(got.value)
             THEN LET ta == NewInitializedFromBytes("TickArray", ta_pubkey,
                                got.value[1].bytes, got.value[1].time)
                  IN  IF ~IsSome(ta)
                      THEN [ok |-> FALSE, tick_arrays |-> <<>>,
                            failures |-> <<>>]
                      ELSE BuildTickArrays(tick_arrays_pubkeys, i + 1, got.map,
                                           Append(tick_arrays, ta[1]), failures)
             ELSE BuildTickArrays(tick_arrays_pubkeys, i + 1, got.map,
                     tick_arrays,
                     Append(failures, [pubkey |-> ta_pubkey,
                                       account_type |-> "TickArray"]))

\* new_initialized_from_rpc after the fetch loop: the ManagedAccounts are
\* built from account_map in the order whirlpool, mint A, mint B, oracle,
\* tick arrays.  None is Err; Some holds the pool and the failures.
BuildPool(pubkey, whirlpool_bytes, whirlpool_time, whirlpool_data, oracle_pubkey, tick_arrays_pubkeys, account_map) ==
    LET whirlpool == NewInitializedFromBytes("Whirlpool", pubkey,
                                             whirlpool_bytes, whirlpool_time)
        gotA == MapRemove(account_map, whirlpool_data.token_mint_a)
        mint_a == IF IsSome(gotA.value)
                  THEN NewInitializedFromBytes("Mint",
                          whirlpool_data.token_mint_a,
                          gotA.value[1].bytes, gotA.value[1].time)
                  ELSE None
        gotB == MapRemove(gotA.map, whirlpool_data.token_mint_b)
        mint_b == IF IsSome(gotB.value)
                  THEN NewInitializedFromBytes("Mint",
                          whirlpool_data.token_mint_b,
                          gotB.value[1].bytes, gotB.value[1].time)
                  ELSE None
        gotO == IF IsSome(oracle_pubkey)
                THEN MapRemove(gotB.map, oracle_pubkey[1])
                ELSE [value |-> None, map |-> gotB.map]
        oracle == IF IsSome(gotO.value)
                  THEN NewInitializedFromBytes("Oracle", oracle_pubkey[1],
                          gotO.value[1].bytes, gotO.value[1].time)
                  ELSE None
        oracle_failures ==
            IF IsSome(oracle_pubkey) /\ ~IsSome(gotO.value)
            THEN <<[pubkey |-> oracle_pubkey[1], account_type |-> "Oracle"]>>
            ELSE <<>>
        tas == BuildTickArrays(tick_arrays_pubkeys, 1, gotO.map, <<>>,
                               oracle_failures)
    IN  IF ~IsSome(whirlpool) THEN None
        ELSE IF ~IsSome(mint_a) THEN None
        ELSE IF ~IsSome(mint_b) THEN None
        ELSE IF IsSome(gotO.value) /\ ~IsSome(oracle) THEN None
        ELSE IF ~tas.ok THEN None
        ELSE Some([pool |-> [whirlpool   |-> whirlpool[1],
                             tick_arrays |-> tas.tick_arrays,
                             oracle      |-> oracle,
                             mint_a      |-> mint_a[1],
                             mint_b      |-> mint_b[1]],
                   failures |-> tas.failures])

\* ------------------------------------------------------------------------
\* State
\* ------------------------------------------------------------------------

VARIABLES
    acct,             \* the ManagedAccount<Mint> under test
    upc,              \* per updater: position inside update()
    new_bytes,        \* per updater: argument new_bytes
    update_time,      \* per updater: argument update_time
    new_deserialized, \* per updater: local new_deserialized (an Option)
    uresult,          \* per updater: result of its last update(), or "none"
    calls,            \* per updater: update() calls it has issued
    nOk,              \* update() calls that returned Ok
    okBufs,           \* construction buffer and buffers of calls that decoded
    lastOk,           \* buffer of the last call that returned Ok
    lastOkTime,       \* time argument of that call
    rdpc,             \* the reader's position
    rd_v1,            \* reader: update_slot captured before the reads
    rd_bytes,         \* reader: Guard returned by bytes()  (an Option)
    rd_des,           \* reader: Guard returned by get()    (an Option)
    rd_v2,            \* reader: update_slot re-read after the reads
    rg,               \* per get-first reader: the guards it holds
    limit,            \* the provider's max_accounts_per_rpc_call()
    clock,            \* response_time the provider reports on its next call
    ctor,             \* locals of OrcaWhirlpool::new_initialized_from_rpc
    built,            \* its result: None, or Some of the pool and failures
    pool,             \* the OrcaWhirlpool the caller holds (an Option)
    rf,               \* per refresher: locals of OrcaWhirlpool::refresh
    nRefresh,         \* refresh() calls issued so far
    lastReq,          \* the last get_multiple_accounts request issued
    nosol,            \* seed lists for which no program address exists
    pda,              \* a caller of the pda functions: arguments and results
    made              \* a caller of new_initialized_from_bytes, likewise

acctVars == <<acct, upc, new_bytes, update_time, new_deserialized, uresult,
              calls, nOk, okBufs, lastOk, lastOkTime>>

readerVars == <<rdpc, rd_v1, rd_bytes, rd_des, rd_v2, rg>>

poolVars == <<limit, clock, ctor, built, pool, rf, nRefresh, lastReq>>

fnVars == <<nosol, pda, made>>

vars == <<acctVars, readerVars, poolVars, fnVars>>

\* The threads that call update() on the account.
Updaters == {1, 2}

\* update() calls issued so far, by all updaters.
NCalls == calls[1] + calls[2]

AccountKind == "Mint"

AccountKey == <<"mint", "A", 0>>

\* Buffers handed to the constructor and to update(): three that decode as
\* a Mint, one of another layout and one truncated.
ValidBufs == {<<"Mint", 0>>, <<"Mint", 1>>, <<"Mint", 2>>}

InvalidBufs == {<<"Junk", 0>>, <<"Mint">>}

InitialBufs == {<<"Mint", 0>>}

UpdateBufs == {<<"Mint", 1>>, <<"Mint", 2>>} \cup InvalidBufs

UpdateTimes == {11, 12}

InitialTimes == {10}

NoUpdateInFlight == \A t \in Updaters : upc[t] = "idle"

\* The threads that call get() and then bytes() on the account.
GetFirstReaders == {1, 2}

\* Locals of a get-first reader that holds no guard.  With each guard goes
\* the history field of the slot at the load.
GuardsNone ==
    [pc |-> "idle", deserialized |-> None, deserialized_gen |-> 0,
     bytes |-> None, bytes_gen |-> 0]

\* ------------------------------------------------------------------------
\* Initial state: the account as new_initialized_from_bytes returns it
\* ------------------------------------------------------------------------

\* The threads that call refresh() on the pool.
Refreshers == {1, 2}

\* Locals of new_initialized_from_rpc at a position pc, nothing fetched yet.
\* whirlpool_response is what get_account returned (None for Err) and
\* fetch_failed tells that a get_multiple_accounts call returned Err; both
\* stay as they are once the function has returned.  requests and
\* request_times are history fields: the chunks get_multiple_accounts was
\* called with, in call order, and the response_time of each call that
\* returned Ok.
CtorAt(pc) ==
    [pc                  |-> pc,
     whirlpool_response  |-> None,
     fetch_failed        |-> FALSE,
     whirlpool_bytes     |-> <<>>,
     whirlpool_time      |-> 0,
     whirlpool_data      |-> None,
     oracle_pubkey       |-> None,
     tick_arrays_pubkeys |-> <<>>,
     pubkeys_to_fetch    |-> <<>>,
     fetched             |-> 0,
     requests            |-> <<>>,
     request_times       |-> <<>>,
     account_map         |-> <<>>]

\* Locals of a refresh() that is not running and has returned result.
RefreshIdle(result) ==
    [pc          |-> "idle",
     result      |-> result,
     fetch_ok    |-> FALSE,
     update_time |-> 0,
     accounts_to_update |-> <<>>,
     len         |-> 0,
     pos         |-> 0,
     seen        |-> <<>>,
     snapshot    |-> <<>>]

NoRequest == [op |-> "none", keys |-> <<>>]

\* No pool is constructed: the account is exercised on its own.
PoolUnused ==
    /\ limit = 0
    /\ clock = 0
    /\ ctor = CtorAt("unused")
    /\ built = None
    /\ pool = None
    /\ rf = [r \in Refreshers |-> RefreshIdle("none")]
    /\ nRefresh = 0
    /\ lastReq = NoRequest

InitAccount ==
    /\ \E b \in InitialBufs, tm \in InitialTimes :
          /\ IsSome(NewInitializedFromBytes(AccountKind, AccountKey, b, tm))
          /\ acct = NewInitializedFromBytes(AccountKind, AccountKey, b, tm)[1]
          /\ okBufs = {b}
          /\ lastOk = b
          /\ lastOkTime = tm
    /\ upc = [t \in Updaters |-> "idle"]
    /\ new_bytes = [t \in Updaters |-> <<>>]
    /\ update_time = [t \in Updaters |-> 0]
    /\ new_deserialized = [t \in Updaters |-> None]
    /\ uresult = [t \in Updaters |-> "none"]
    /\ calls = [t \in Updaters |-> 0]
    /\ nOk = 0
    /\ rdpc = "idle"
    /\ rd_v1 = 0
    /\ rd_bytes = None
    /\ rd_des = None
    /\ rd_v2 = 0
    /\ rg = [r \in GetFirstReaders |-> GuardsNone]

\* No caller of the pda functions or of the constructor on its own.
PdaIdle ==
    [tick_spacing |-> 0, start_tick_index |-> 0,
     calls |-> [tick_arrays |-> 0, oracle |-> 0, tick_array |-> 0],
     clocks |-> {},
     pc |-> "idle", tick_array_width |-> 0, curr_start_tick_idx |-> 0,
     largest_start_tick_idx |-> 0, tick_array_pubkeys |-> <<>>,
     tick_arrays |-> None, oracle |-> None, tick_array |-> None]

MadeIdle ==
    [kind |-> "Mint", pubkey |-> <<>>, initial_bytes |-> <<>>,
     initial_time |-> 0, called |-> FALSE, account |-> None, updates |-> 0]

FnUnused ==
    /\ nosol = {}
    /\ pda = PdaIdle
    /\ made = MadeIdle

Init == InitAccount /\ PoolUnused /\ FnUnused

\* ------------------------------------------------------------------------
\* update(): one action per shared-memory access
\* ------------------------------------------------------------------------

\* Mutant of UpdateDecode: the bytes are stored before they are decoded, so
\* a rejected buffer reaches the bytes slot.
UpdateDecodeStoreFirst(t) ==
    /\ upc[t] = "idle"
    /\ NCalls < MaxUpdates
    /\ \E b \in UpdateBufs, tm \in UpdateTimes :
          LET d == FromBytes(acct.kind, b)
          IN  /\ new_bytes' = [new_bytes EXCEPT ![t] = b]
              /\ update_time' = [update_time EXCEPT ![t] = tm]
              /\ new_deserialized' = [new_deserialized EXCEPT ![t] = d]
              /\ acct' = StoreBytesOf(acct, b, tm)
              /\ IF IsSome(d)
                 THEN /\ upc' = [upc EXCEPT ![t] = "bytes_stored"]
                      /\ uresult' = [uresult EXCEPT ![t] = "none"]
                      /\ okBufs' = okBufs \cup {b}
                 ELSE /\ upc' = upc
                      /\ uresult' = [uresult EXCEPT ![t] = "Err"]
                      /\ okBufs' = okBufs
    /\ calls' = [calls EXCEPT ![t] = @ + 1]
    /\ UNCHANGED <<nOk, lastOk, lastOkTime, readerVars, poolVars, fnVars>>

\* update() is called and runs T::from_bytes(&new_bytes)?: on a decode
\* failure it returns Err at once, touching nothing.
UpdateDecode(t) ==
    /\ upc[t] = "idle"
    /\ NCalls < MaxUpdates
    /\ \E b \in UpdateBufs, tm \in UpdateTimes :
          LET d == FromBytes(acct.kind, b)
          IN  /\ new_bytes' = [new_bytes EXCEPT ![t] = b]
              /\ update_time' = [update_time EXCEPT ![t] = tm]
              /\ new_deserialized' = [new_deserialized EXCEPT ![t] = d]
              /\ IF IsSome(d)
                 THEN /\ upc' = [upc EXCEPT ![t] = "decoded"]
                      /\ uresult' = [uresult EXCEPT ![t] = "none"]
                      /\ okBufs' = okBufs \cup {b}
                 ELSE /\ upc' = upc
                      /\ uresult' = [uresult EXCEPT ![t] = "Err"]
                      /\ okBufs' = okBufs
    /\ calls' = [calls EXCEPT ![t] = @ + 1]
    /\ UNCHANGED <<acct, nOk, lastOk, lastOkTime, readerVars, poolVars, fnVars>>

\* Mutant of UpdateStoreBytes: the buffer is written in place, and a reader
\* can see it half written.
UpdateStoreBytesTorn(t) ==
    /\ upc[t] = "decoded"
    /\ \E n \in 1..Len(new_bytes[t]) :
          acct' = StoreBytesOf(acct, SubSeq(new_bytes[t], 1, n),
                               update_time[t])
    /\ upc' = [upc EXCEPT ![t] = IF acct'.bytes = new_bytes[t]
                                 THEN "bytes_stored" ELSE "decoded"]
    /\ UNCHANGED <<new_bytes, update_time, new_deserialized, uresult, calls,
                   nOk, okBufs, lastOk, lastOkTime, readerVars, poolVars, fnVars>>

\* Mutant of UpdateStoreBytes: the deserialized slot is swapped first and
\* the bytes slot second.
UpdateStoreDeserializedFirst(t) ==
    /\ \/ /\ upc[t] = "decoded"
          /\ acct' = StoreDeserialized(acct, new_deserialized[t][1])
          /\ upc' = [upc EXCEPT ![t] = "deserialized_first"]
       \/ /\ upc[t] = "deserialized_first"
          /\ acct' = StoreBytesOf(acct, new_bytes[t], update_time[t])
          /\ upc' = [upc EXCEPT ![t] = "deserialized_stored"]
    /\ UNCHANGED <<new_bytes, update_time, new_deserialized, uresult, calls,
                   nOk, okBufs, lastOk, lastOkTime, readerVars, poolVars, fnVars>>

\* self.bytes.store(Arc::new(new_bytes))
UpdateStoreBytes(t) ==
    /\ upc[t] = "decoded"
    /\ acct' = StoreBytesOf(acct, new_bytes[t], update_time[t])
    /\ upc' = [upc EXCEPT ![t] = "bytes_stored"]
    /\ UNCHANGED <<new_bytes, update_time, new_deserialized, uresult, calls,
                   nOk, okBufs, lastOk, lastOkTime, readerVars, poolVars, fnVars>>

\* Mutant of UpdateStoreDeserialized: the slot is behind a read-write lock,
\* and the store waits until no reader holds a guard on it.
UpdateStoreDeserializedLocked(t) ==
    /\ upc[t] = "bytes_stored"
    /\ ~IsSome(rd_des)
    /\ acct' = StoreDeserialized(acct, new_deserialized[t][1])
    /\ upc' = [upc EXCEPT ![t] = "deserialized_stored"]
    /\ UNCHANGED <<new_bytes, update_time, new_deserialized, uresult, calls,
                   nOk, okBufs, lastOk, lastOkTime, readerVars, poolVars, fnVars>>

\* self.deserialized.store(Arc::new(new_deserialized))
UpdateStoreDeserialized(t) ==
    /\ upc[t] = "bytes_stored"
    /\ acct' = StoreDeserialized(acct, new_deserialized[t][1])
    /\ upc' = [upc EXCEPT ![t] = "deserialized_stored"]
    /\ UNCHANGED <<new_bytes, update_time, new_deserialized, uresult, calls,
                   nOk, okBufs, lastOk, lastOkTime, readerVars, poolVars, fnVars>>

\* Mutant of UpdateFetchAdd: the counter is loaded and then stored instead
\* of incremented in one step, so that updates which are all about to
\* increment it load the same value and store the same value.
UpdateFetchAddLoadThenStore(t) ==
    /\ upc[t] = "deserialized_stored"
    /\ acct' = FetchAddUpdateSlot(acct)
    /\ upc' = [u \in Updaters |->
                 IF upc[u] = "deserialized_stored" THEN "slot_added"
                 ELSE upc[u]]
    /\ UNCHANGED <<new_bytes, update_time, new_deserialized, uresult, calls,
                   nOk, okBufs, lastOk, lastOkTime, readerVars, poolVars, fnVars>>

\* self.update_slot.fetch_add(1, Ordering::Relaxed)
UpdateFetchAdd(t) ==
    /\ upc[t] = "deserialized_stored"
    /\ acct' = FetchAddUpdateSlot(acct)
    /\ upc' = [upc EXCEPT ![t] = "slot_added"]
    /\ UNCHANGED <<new_bytes, update_time, new_deserialized, uresult, calls,
                   nOk, okBufs, lastOk, lastOkTime, readerVars, poolVars, fnVars>>

\* self.last_update_time.store(update_time, Ordering::Relaxed); Ok(())
UpdateStoreTime(t) ==
    /\ upc[t] = "slot_added"
    /\ acct' = StoreLastUpdateTime(acct, update_time[t])
    /\ upc' = [upc EXCEPT ![t] = "idle"]
    /\ uresult' = [uresult EXCEPT ![t] = "Ok"]
    /\ nOk' = nOk + 1
    /\ lastOk' = new_bytes[t]
    /\ lastOkTime' = update_time[t]
    /\ UNCHANGED <<new_bytes, update_time, new_deserialized, calls, okBufs,
                   readerVars, poolVars, fnVars>>

\* ------------------------------------------------------------------------
\* A reader: captures update_slot, calls bytes() and get(), re-reads
\* update_slot, then drops both guards
\* ------------------------------------------------------------------------

ReadVersionBefore ==
    /\ rdpc = "idle"
    /\ rd_v1' = acct.update_slot
    /\ rdpc' = "have_v1"
    /\ UNCHANGED <<acctVars, rd_bytes, rd_des, rd_v2, rg, poolVars, fnVars>>

\* AccountState::bytes: self.bytes.load()
ReadBytes ==
    /\ rdpc = "have_v1"
    /\ rd_bytes' = Some(acct.bytes)
    /\ rdpc' = "have_bytes"
    /\ UNCHANGED <<acctVars, rd_v1, rd_des, rd_v2, rg, poolVars, fnVars>>

\* ManagedAccount::get: self.deserialized.load()
ReadGet ==
    /\ rdpc = "have_bytes"
    /\ rd_des' = Some(acct.deserialized)
    /\ rdpc' = "have_des"
    /\ UNCHANGED <<acctVars, rd_v1, rd_bytes, rd_v2, rg, poolVars, fnVars>>

ReadVersionAfter ==
    /\ rdpc = "have_des"
    /\ rd_v2' = acct.update_slot
    /\ rdpc' = "done"
    /\ UNCHANGED <<acctVars, rd_v1, rd_bytes, rd_des, rg, poolVars, fnVars>>

\* The guards go out of scope; the reader starts over.
ReadDrop ==
    /\ rdpc = "done"
    /\ rdpc' = "idle"
    /\ rd_v1' = 0
    /\ rd_bytes' = None
    /\ rd_des' = None
    /\ rd_v2' = 0
    /\ UNCHANGED <<acctVars, rg, poolVars, fnVars>>

Reader ==
    \/ ReadVersionBefore
    \/ ReadBytes
    \/ ReadGet
    \/ ReadVersionAfter
    \/ ReadDrop

\* ------------------------------------------------------------------------
\* A reader that calls get() first and bytes() second, then drops both
\* guards
\* ------------------------------------------------------------------------

\* ManagedAccount::get: self.deserialized.load()
GetFirst(r) ==
    /\ rg[r].pc = "idle"
    /\ rg' = [rg EXCEPT ![r] =
                [@ EXCEPT !.pc = "have_deserialized",
                          !.deserialized = Some(acct.deserialized),
                          !.deserialized_gen = acct.deserialized_gen]]
    /\ UNCHANGED <<acctVars, rdpc, rd_v1, rd_bytes, rd_des, rd_v2, poolVars,
                   fnVars>>

\* AccountState::bytes: self.bytes.load()
BytesSecond(r) ==
    /\ rg[r].pc = "have_deserialized"
    /\ rg' = [rg EXCEPT ![r] =
                [@ EXCEPT !.pc = "have_both",
                          !.bytes = Some(acct.bytes),
                          !.bytes_gen = acct.bytes_gen]]
    /\ UNCHANGED <<acctVars, rdpc, rd_v1, rd_bytes, rd_des, rd_v2, poolVars,
                   fnVars>>

DropBoth(r) ==
    /\ rg[r].pc = "have_both"
    /\ rg' = [rg EXCEPT ![r] = GuardsNone]
    /\ UNCHANGED <<acctVars, rdpc, rd_v1, rd_bytes, rd_des, rd_v2, poolVars,
                   fnVars>>

GetFirstReader(r) ==
    \/ GetFirst(r)
    \/ BytesSecond(r)
    \/ DropBoth(r)

\* ------------------------------------------------------------------------
\* A reader that calls bytes() first and get() second, then drops both
\* guards
\* ------------------------------------------------------------------------

\* AccountState::bytes: self.bytes.load()
BytesFirst(r) ==
    /\ rg[r].pc = "idle"
    /\ rg' = [rg EXCEPT ![r] =
                [@ EXCEPT !.pc = "have_bytes",
                          !.bytes = Some(acct.bytes),
                          !.bytes_gen = acct.bytes_gen]]
    /\ UNCHANGED <<acctVars, rdpc, rd_v1, rd_bytes, rd_des, rd_v2, poolVars,
                   fnVars>>

\* Mutant of GetSecond: get() waits while an update() has swapped the
\* bytes slot and not yet the deserialized slot.
GetSecondLocked(r) ==
    /\ rg[r].pc = "have_bytes"
    /\ \A t \in Updaters : upc[t] # "bytes_stored"
    /\ rg' = [rg EXCEPT ![r] =
                [@ EXCEPT !.pc = "have_both",
                          !.deserialized = Some(acct.deserialized),
                          !.deserialized_gen = acct.deserialized_gen]]
    /\ UNCHANGED <<acctVars, rdpc, rd_v1, rd_bytes, rd_des, rd_v2, poolVars,
                   fnVars>>

\* ManagedAccount::get: self.deserialized.load()
GetSecond(r) ==
    /\ rg[r].pc = "have_bytes"
    /\ rg' = [rg EXCEPT ![r] =
                [@ EXCEPT !.pc = "have_both",
                          !.deserialized = Some(acct.deserialized),
                          !.deserialized_gen = acct.deserialized_gen]]
    /\ UNCHANGED <<acctVars, rdpc, rd_v1, rd_bytes, rd_des, rd_v2, poolVars,
                   fnVars>>

BytesFirstReader(r) ==
    \/ BytesFirst(r)
    \/ GetSecond(r)
    \/ DropBoth(r)

UpdateStep(t) ==
    \/ UpdateStoreBytes(t)
    \/ UpdateStoreDeserialized(t)
    \/ UpdateFetchAdd(t)
    \/ UpdateStoreTime(t)

\* Any number of update() calls in flight at once.
Next ==
    \/ \E t \in Updaters : UpdateDecode(t)
    \/ \E t \in Updaters : UpdateStep(t)
    \/ Reader

Spec == Init /\ [][Next]_vars

\* update() calls applied one after another: a call starts only when no
\* other is in flight.
NextSeq ==
    \/ \E t \in Updaters : NoUpdateInFlight /\ UpdateDecode(t)
    \/ \E t \in Updaters : UpdateStep(t)
    \/ Reader

SpecSeq == Init /\ [][NextSeq]_vars

\* update() calls applied one after another, with get-first readers.
NextGetFirst ==
    \/ \E t \in Updaters : NoUpdateInFlight /\ UpdateDecode(t)
    \/ \E t \in Updaters : UpdateStep(t)
    \/ \E r \in GetFirstReaders : GetFirstReader(r)

SpecGetFirst == Init /\ [][NextGetFirst]_vars

\* update() calls applied one after another, with bytes-first readers.
NextBytesFirst ==
    \/ \E t \in Updaters : NoUpdateInFlight /\ UpdateDecode(t)
    \/ \E t \in Updaters : UpdateStep(t)
    \/ \E r \in GetFirstReaders : BytesFirstReader(r)

SpecBytesFirst == Init /\ [][NextBytesFirst]_vars

\* ------------------------------------------------------------------------
\* The provider and the chain, as the pool sees them
\* ------------------------------------------------------------------------

\* RpcClient::max_accounts_per_rpc_call
RpcClientMaxAccounts == 100

\* max_accounts_per_rpc_call() of the providers modelled: a small one, so
\* that key lists are longer than a call may carry, and RpcClient's.
Limits == {2, RpcClientMaxAccounts}

WhirlpoolKey == <<"whirlpool", "WP", 0>>

MintKeyA == <<"mint", "A", 0>>

MintKeyB == <<"mint", "B", 0>>

\* What get_account may return for the whirlpool: a pool of tick spacing
\* 8192 (two tick arrays), one whose two mints are the same key, and bytes
\* that are no Whirlpool.
WhirlpoolAccounts ==
    {<<"Whirlpool", MintKeyA, MintKeyB, 8192>>,
     <<"Whirlpool", MintKeyA, MintKeyA, 8192>>,
     <<"Junk", 0>>}

\* Seed lists for which try_find_program_address finds no address: none,
\* the oracle's, or those of the tick array starting at 0.  Which it is is
\* a fact of the hash function, the same at every call.
NoSolutionChoices ==
    {{}, {<<"oracle", "WP", 0>>}, {<<"tick_array", "WP", 0>>}}

\* The account kind stored at an address.
KindAt(pubkey) ==
    CASE pubkey[1] = "whirlpool"  -> "Whirlpool"
      [] pubkey[1] = "mint"       -> "Mint"
      [] pubkey[1] = "oracle"     -> "Oracle"
      [] pubkey[1] = "tick_array" -> "TickArray"

\* The payload of the account at an address at time tm: no two addresses
\* of one kind hold the same payload, and it changes with time.
ChainData(pubkey, tm) ==
    10 * tm + (CASE pubkey[1] = "mint" -> (IF pubkey[2] = "A" THEN 1 ELSE 2)
                 [] pubkey[1] = "oracle" -> 3
                 [] pubkey[1] = "tick_array" ->
                       (IF pubkey[3] < 0 THEN 4
                        ELSE IF pubkey[3] = 0 THEN 5 ELSE 6)
                 [] OTHER -> 0)

\* What the chain may hold at an address when the provider answers at time
\* tm: nothing, bytes of the kind that lives there, or other bytes.  A
\* whirlpool read later names other mints and another tick spacing.
EntryChoices(pubkey, tm) ==
    {None,
     Some(<<"Junk", 0>>),
     Some(IF KindAt(pubkey) = "Whirlpool"
          THEN <<"Whirlpool", MintKeyB, MintKeyA, 4096 + tm>>
          ELSE <<KindAt(pubkey), ChainData(pubkey, tm)>>)}

\* The results a get_multiple_accounts call may carry for the keys from the
\* i-th on: one entry per key, in request order.
RECURSIVE ChunkResponses(_, _, _)
ChunkResponses(pubkeys, i, tm) ==
    IF i > Len(pubkeys)
    THEN {<<>>}
    ELSE {<<e>> \o rest : e \in EntryChoices(pubkeys[i], tm),
                          rest \in ChunkResponses(pubkeys, i + 1, tm)}

\* ------------------------------------------------------------------------
\* OrcaWhirlpool::new_initialized_from_rpc
\* ------------------------------------------------------------------------

InitPool ==
    /\ InitAccount
    /\ nosol \in NoSolutionChoices
    /\ pda = PdaIdle
    /\ made = MadeIdle
    /\ limit \in Limits
    /\ clock = 1
    /\ ctor = CtorAt("start")
    /\ built = None
    /\ pool = None
    /\ rf = [r \in Refreshers |-> RefreshIdle("none")]
    /\ nRefresh = 0
    /\ lastReq = NoRequest

\* get_account, Whirlpool::from_bytes and the address derivation: any of the
\* three failing fails the construction; otherwise pubkeys_to_fetch is the
\* two mints, the oracle address if there is one, and the tick arrays.
ConstructGetAccount ==
    /\ ctor.pc = "start"
    /\ clock' = clock + 1
    /\ \E response \in {None} \cup {Some(b) : b \in WhirlpoolAccounts} :
          LET whirlpool_data ==
                  IF IsSome(response)
                  THEN FromBytes("Whirlpool", response[1]) ELSE None
              oracle_pubkey == GetOracleAddress(WhirlpoolKey, nosol)
              tick_arrays_pubkeys ==
                  IF IsSome(whirlpool_data)
                  THEN GetTickArrayAddresses(WhirlpoolKey,
                          whirlpool_data[1].tick_spacing, nosol)
                  ELSE None
          IN  IF ~IsSome(whirlpool_data) \/ ~IsSome(tick_arrays_pubkeys)
              THEN ctor' = [CtorAt("failed") EXCEPT
                              !.whirlpool_response = response,
                              !.whirlpool_data = whirlpool_data]
              ELSE ctor' = [pc                  |-> "fetching",
                            whirlpool_response  |-> response,
                            fetch_failed        |-> FALSE,
                            whirlpool_bytes     |-> response[1],
                            whirlpool_time      |-> clock,
                            whirlpool_data      |-> whirlpool_data,
                            oracle_pubkey       |-> oracle_pubkey,
                            tick_arrays_pubkeys |-> tick_arrays_pubkeys[1],
                            pubkeys_to_fetch    |->
                               <<whirlpool_data[1].token_mint_a,
                                 whirlpool_data[1].token_mint_b>>
                               \o oracle_pubkey \o tick_arrays_pubkeys[1],
                            fetched             |-> 0,
                            requests            |-> <<>>,
                            request_times       |-> <<>>,
                            account_map         |-> <<>>]
    /\ UNCHANGED <<acctVars, readerVars, fnVars, limit, built, pool, rf,
                   nRefresh, lastReq>>

\* Mutant of NextChunk: all the keys not fetched yet go into one chunk,
\* whatever the limit.
NextChunkUnlimited(pubkeys_to_fetch, fetched, lim) ==
    SubSeq(pubkeys_to_fetch, fetched + 1, Len(pubkeys_to_fetch))

\* pubkeys_to_fetch.chunks(limit): the chunk after the keys fetched so far.
NextChunk(pubkeys_to_fetch, fetched, lim) ==
    SubSeq(pubkeys_to_fetch, fetched + 1,
           Min(fetched + lim, Len(pubkeys_to_fetch)))

\* One turn of the fetch loop: get_multiple_accounts over the next chunk,
\* an error failing the construction, the entries found going into
\* account_map; after the last chunk the pool is built.
ConstructFetchChunk ==
    /\ ctor.pc = "fetching"
    /\ clock' = clock + 1
    /\ LET chunk == NextChunk(ctor.pubkeys_to_fetch, ctor.fetched, limit)
       IN  /\ lastReq' = [op |-> "construct", keys |-> chunk]
           /\ \E response \in {None} \cup
                    {Some(a) : a \in ChunkResponses(chunk, 1, clock)} :
                 IF ~IsSome(response)
                 THEN /\ ctor' = [ctor EXCEPT !.pc = "failed",
                                              !.fetch_failed = TRUE,
                                              !.requests = Append(@, chunk)]
                      /\ UNCHANGED <<built, pool>>
                 ELSE LET account_map ==
                              InsertChunk(ctor.account_map, chunk,
                                          response[1], clock, 1)
                          fetched == ctor.fetched + Len(chunk)
                          result ==
                              BuildPool(WhirlpoolKey, ctor.whirlpool_bytes,
                                        ctor.whirlpool_time,
                                        ctor.whirlpool_data[1],
                                        ctor.oracle_pubkey,
                                        ctor.tick_arrays_pubkeys, account_map)
                      IN  IF fetched < Len(ctor.pubkeys_to_fetch)
                          THEN /\ ctor' = [ctor EXCEPT
                                             !.account_map = account_map,
                                             !.requests = Append(@, chunk),
                                             !.request_times = Append(@, clock),
                                             !.fetched = fetched]
                               /\ UNCHANGED <<built, pool>>
                          ELSE IF ~IsSome(result)
                          THEN /\ ctor' = [ctor EXCEPT
                                             !.pc = "failed",
                                             !.account_map = account_map,
                                             !.requests = Append(@, chunk),
                                             !.request_times = Append(@, clock),
                                             !.fetched = fetched]
                               /\ UNCHANGED <<built, pool>>
                          ELSE /\ ctor' = [ctor EXCEPT
                                             !.pc = "ready",
                                             !.account_map = account_map,
                                             !.requests = Append(@, chunk),
                                             !.request_times = Append(@, clock),
                                             !.fetched = fetched]
                               /\ built' = result
                               /\ pool' = Some(result[1].pool)
    /\ UNCHANGED <<acctVars, readerVars, fnVars, limit, rf, nRefresh>>

\* ------------------------------------------------------------------------
\* OrcaWhirlpool::refresh
\* ------------------------------------------------------------------------

NoRefreshInFlight == \A r \in Refreshers : rf[r].pc = "idle"

\* Mutant of ApplyEntry: a member the provider returns as absent is taken
\* out of the pool's tick arrays.
ApplyEntryDropAbsent(p, i, account_data_option, response_time) ==
    IF IsSome(account_data_option)
    THEN LET u == Update(Accounts(p)[i], account_data_option[1], response_time)
         IN  [ok |-> u.ok,
              pool |-> IF u.ok THEN WithAccount(p, i, u.account) ELSE p]
    ELSE [ok |-> TRUE,
          pool |-> IF 3 < i /\ i <= 3 + Len(p.tick_arrays)
                   THEN [p EXCEPT !.tick_arrays =
                            SubSeq(@, 1, i - 4) \o SubSeq(@, i - 2, Len(@))]
                   ELSE p]

\* Mutant of ApplyEntry: a member the provider returns as absent makes the
\* refresh fail.
ApplyEntryAbsentIsError(p, i, account_data_option, response_time) ==
    IF IsSome(account_data_option)
    THEN LET u == Update(Accounts(p)[i], account_data_option[1], response_time)
         IN  [ok |-> u.ok,
              pool |-> IF u.ok THEN WithAccount(p, i, u.account) ELSE p]
    ELSE [ok |-> FALSE, pool |-> p]

\* Mutant of ApplyEntry: the result of update() is dropped, and the loop
\* goes on after bytes that do not decode.
ApplyEntryIgnoreError(p, i, account_data_option, response_time) ==
    IF IsSome(account_data_option)
    THEN LET u == Update(Accounts(p)[i], account_data_option[1], response_time)
         IN  [ok |-> TRUE,
              pool |-> IF u.ok THEN WithAccount(p, i, u.account) ELSE p]
    ELSE [ok |-> TRUE, pool |-> p]

\* The body of the loop of refresh() for the i-th account of accounts():
\* update() with the bytes if the entry is Some, nothing otherwise; ok is
\* FALSE when update() returned Err.
ApplyEntry(p, i, account_data_option, response_time) ==
    IF IsSome(account_data_option)
    THEN LET u == Update(Accounts(p)[i], account_data_option[1], response_time)
         IN  [ok |-> u.ok,
              pool |-> IF u.ok THEN WithAccount(p, i, u.account) ELSE p]
    ELSE [ok |-> TRUE, pool |-> p]

\* Mutant of RefreshCall: when get_multiple_accounts fails the call is
\* issued a second time before refresh() gives up.
RefreshCallRetry(r) ==
    /\ ctor.pc = "ready"
    /\ rf[r].pc = "idle"
    /\ nRefresh < MaxRefresh
    /\ nRefresh' = nRefresh + 1
    /\ LET accounts_to_update == AccountKeys(pool[1])
       IN  /\ lastReq' = [op |-> "refresh", keys |-> accounts_to_update]
           /\ \E fetch_ok \in BOOLEAN :
                 /\ clock' = IF fetch_ok THEN clock + 1 ELSE clock + 2
                 /\ rf' = [rf EXCEPT ![r] =
                          IF ~fetch_ok
                          THEN RefreshIdle("Err")
                          ELSE [pc          |-> "applying",
                                result      |-> "none",
                                fetch_ok    |-> TRUE,
                                update_time |-> clock,
                                accounts_to_update |-> accounts_to_update,
                                len         |-> Len(accounts_to_update),
                                pos         |-> 1,
                                seen        |-> <<>>,
                                snapshot    |-> Accounts(pool[1])]]
    /\ UNCHANGED <<acctVars, readerVars, fnVars, limit, ctor, built, pool>>

\* refresh() collects the pubkeys of accounts() and calls
\* get_multiple_accounts once over all of them; an error is returned to the
\* caller.  The response carries one entry per key.
RefreshCall(r) ==
    /\ ctor.pc = "ready"
    /\ rf[r].pc = "idle"
    /\ nRefresh < MaxRefresh
    /\ nRefresh' = nRefresh + 1
    /\ clock' = clock + 1
    /\ LET accounts_to_update == AccountKeys(pool[1])
       IN  /\ lastReq' = [op |-> "refresh", keys |-> accounts_to_update]
           /\ \E fetch_ok \in BOOLEAN :
                 rf' = [rf EXCEPT ![r] =
                          IF ~fetch_ok
                          THEN RefreshIdle("Err")
                          ELSE [pc          |-> "applying",
                                result      |-> "none",
                                fetch_ok    |-> TRUE,
                                update_time |-> clock,
                                accounts_to_update |-> accounts_to_update,
                                len         |-> Len(accounts_to_update),
                                pos         |-> 1,
                                seen        |-> <<>>,
                                snapshot    |-> Accounts(pool[1])]]
    /\ UNCHANGED <<acctVars, readerVars, fnVars, limit, ctor, built, pool>>

\* Mutant of RefreshApply: after the last pair refresh() compares the
\* number of entries with the number of members and returns Err when they
\* differ.
RefreshApplyLengthChecked(r) ==
    /\ rf[r].pc = "applying"
    /\ LET i == rf[r].pos
       IN  \E account_data_option \in
                 EntryChoices(rf[r].accounts_to_update[i],
                              rf[r].update_time) :
              LET applied == ApplyEntry(pool[1], i, account_data_option,
                                        rf[r].update_time)
                  seen == Append(rf[r].seen, account_data_option)
              IN  /\ pool' = Some(applied.pool)
                  /\ rf' = [rf EXCEPT ![r] =
                       IF ~applied.ok
                       THEN [@ EXCEPT !.pc = "idle", !.result = "Err",
                                      !.seen = seen]
                       ELSE IF i >= Min(Len(Accounts(applied.pool)), rf[r].len)
                       THEN [@ EXCEPT !.pc = "idle",
                                      !.result =
                                         IF rf[r].len
                                               = Len(Accounts(applied.pool))
                                         THEN "Ok" ELSE "Err",
                                      !.seen = seen]
                       ELSE [@ EXCEPT !.pos = i + 1, !.seen = seen]]
    /\ UNCHANGED <<acctVars, readerVars, fnVars, limit, clock, ctor, built,
                   nRefresh, lastReq>>

\* One turn of the loop over accounts() zipped with the response.  The
\* entry for the member is drawn when the loop reaches it: the entries of a
\* response are independent of one another and the loop never looks ahead.
\* After the last pair, or at the first update() that fails, refresh()
\* returns.
RefreshApply(r) ==
    /\ rf[r].pc = "applying"
    /\ LET i == rf[r].pos
       IN  \E account_data_option \in
                 EntryChoices(rf[r].accounts_to_update[i],
                              rf[r].update_time) :
              LET applied == ApplyEntry(pool[1], i, account_data_option,
                                        rf[r].update_time)
                  seen == Append(rf[r].seen, account_data_option)
              IN  /\ pool' = Some(applied.pool)
                  /\ rf' = [rf EXCEPT ![r] =
                       IF ~applied.ok
                       THEN [@ EXCEPT !.pc = "idle", !.result = "Err",
                                      !.seen = seen]
                       ELSE IF i >= Min(Len(Accounts(applied.pool)), rf[r].len)
                       THEN [@ EXCEPT !.pc = "idle", !.result = "Ok",
                                      !.seen = seen]
                       ELSE [@ EXCEPT !.pos = i + 1, !.seen = seen]]
    /\ UNCHANGED <<acctVars, readerVars, fnVars, limit, clock, ctor, built,
                   nRefresh, lastReq>>

\* refresh() with a provider whose response holds any number of entries,
\* from none to one more than the keys asked for: the zip pairs the
\* members with the entries up to the shorter of the two, so with no
\* entry the loop body never runs and refresh() returns Ok.
RefreshCallAnyLength(r) ==
    /\ ctor.pc = "ready"
    /\ rf[r].pc = "idle"
    /\ nRefresh < MaxShortRefresh
    /\ nRefresh' = nRefresh + 1
    /\ clock' = clock + 1
    /\ LET accounts_to_update == AccountKeys(pool[1])
       IN  /\ lastReq' = [op |-> "refresh", keys |-> accounts_to_update]
           /\ \E fetch_ok \in BOOLEAN,
                 len \in 0..(Len(accounts_to_update) + 1) :
                 rf' = [rf EXCEPT ![r] =
                          IF ~fetch_ok
                          THEN RefreshIdle("Err")
                          ELSE [pc          |-> IF len = 0 THEN "idle"
                                                ELSE "applying",
                                result      |-> IF len = 0 THEN "Ok"
                                                ELSE "none",
                                fetch_ok    |-> TRUE,
                                update_time |-> clock,
                                accounts_to_update |-> accounts_to_update,
                                len         |-> len,
                                pos         |-> 1,
                                seen        |-> <<>>,
                                snapshot    |-> Accounts(pool[1])]]
    /\ UNCHANGED <<acctVars, readerVars, fnVars, limit, ctor, built, pool>>

Construct ==
    \/ ConstructGetAccount
    \/ ConstructFetchChunk

\* The pool is constructed, then refresh() is called again and again, each
\* call after the one before has returned.
NextPool ==
    \/ Construct
    \/ NoRefreshInFlight /\ RefreshCall(1)
    \/ RefreshApply(1)

SpecPool == InitPool /\ [][NextPool]_vars

\* The pool is constructed, then refresh() is called with a provider that
\* answers with any number of entries.
NextAnyLength ==
    \/ Construct
    \/ NoRefreshInFlight /\ RefreshCallAnyLength(1)
    \/ RefreshApply(1)

SpecAnyLength == InitPool /\ [][NextAnyLength]_vars

\* max_accounts_per_rpc_call() of providers from one key a call to more
\* than any key list here holds.
ChunkLimits == {1, 2, 3, 4, 5, 6, RpcClientMaxAccounts}

\* The construction alone, for each of these providers.
InitChunks ==
    /\ InitAccount
    /\ nosol \in NoSolutionChoices
    /\ pda = PdaIdle
    /\ made = MadeIdle
    /\ limit \in ChunkLimits
    /\ clock = 1
    /\ ctor = CtorAt("start")
    /\ built = None
    /\ pool = None
    /\ rf = [r \in Refreshers |-> RefreshIdle("none")]
    /\ nRefresh = 0
    /\ lastReq = NoRequest

SpecChunks == InitChunks /\ [][Construct]_vars

\* The same, with refresh() calls from two threads overlapping.  Each
\* update() inside a refresh is taken as one step here; the interleavings
\* inside update() are those of Spec.
NextPoolConc ==
    \/ Construct
    \/ \E r \in Refreshers : RefreshCall(r)
    \/ \E r \in Refreshers : RefreshApply(r)

SpecPoolConc == InitPool /\ [][NextPoolConc]_vars

\* ------------------------------------------------------------------------
\* Callers of the address derivation functions (orca/pda.rs)
\* ------------------------------------------------------------------------

\* tick_spacing arguments (u16): the smallest u16, spacings of deployed
\* whirlpools, the two spacings around 443636 / 88, and the largest u16.
TickSpacings ==
    {0, 16, 64, 96, 128, 256, 5041, 5042, 8192, 32896, 65535}

\* The pda functions are called with one whirlpool key, a tick spacing and a
\* start index, while the construction of a pool fetches its whirlpool.
\* pda holds the arguments, the locals of a get_tick_array_addresses call
\* in progress, the last result of each function (None before its first
\* call), the number of calls of each, and the provider times at which they
\* were called.
InitPda ==
    /\ InitAccount
    /\ nosol \in NoSolutionChoices
    /\ \E ts \in TickSpacings, k \in {-1, 0} :
          pda = [PdaIdle EXCEPT !.tick_spacing = ts,
                                !.start_tick_index = k * TickArraySize * ts]
    /\ made = MadeIdle
    /\ limit = RpcClientMaxAccounts
    /\ clock = 1
    /\ ctor = CtorAt("start")
    /\ built = None
    /\ pool = None
    /\ rf = [r \in Refreshers |-> RefreshIdle("none")]
    /\ nRefresh = 0
    /\ lastReq = NoRequest

PdaCalls == pda.calls.tick_arrays + pda.calls.oracle + pda.calls.tick_array

\* Mutant of DeriveTickArraysCall: the width is computed from the spacing
\* and the time of the call.
DeriveTickArraysCallByTime ==
    /\ pda.pc = "idle"
    /\ PdaCalls < MaxDerive
    /\ LET tick_array_width == TickArraySize * (pda.tick_spacing + clock)
       IN  pda' = [pda EXCEPT
                     !.pc = "loop",
                     !.tick_array_width = tick_array_width,
                     !.tick_array_pubkeys = <<>>,
                     !.curr_start_tick_idx =
                         DivFloor(-AbsMaxTickIdx, tick_array_width)
                            * tick_array_width,
                     !.largest_start_tick_idx =
                         DivFloor(AbsMaxTickIdx, tick_array_width)
                            * tick_array_width,
                     !.calls.tick_arrays = @ + 1,
                     !.clocks = @ \cup {clock}]
    /\ UNCHANGED <<acctVars, readerVars, poolVars, nosol, made>>

\* get_tick_array_addresses(whirlpool_pubkey, tick_spacing) is called: the
\* width, the empty vector and the first and the largest start index.
\* div_floor divides by the width, and an i32 division by zero panics: the
\* caller's thread unwinds and the call returns nothing.
DeriveTickArraysCall ==
    /\ pda.pc = "idle"
    /\ PdaCalls < MaxDerive
    /\ LET tick_array_width == TickArraySize * pda.tick_spacing
       IN  IF tick_array_width = 0
           THEN pda' = [pda EXCEPT
                     !.pc = "panicked",
                     !.tick_array_width = tick_array_width,
                     !.tick_array_pubkeys = <<>>,
                     !.calls.tick_arrays = @ + 1,
                     !.clocks = @ \cup {clock}]
           ELSE pda' = [pda EXCEPT
                     !.pc = "loop",
                     !.tick_array_width = tick_array_width,
                     !.tick_array_pubkeys = <<>>,
                     !.curr_start_tick_idx =
                         DivFloor(-AbsMaxTickIdx, tick_array_width)
                            * tick_array_width,
                     !.largest_start_tick_idx =
                         DivFloor(AbsMaxTickIdx, tick_array_width)
                            * tick_array_width,
                     !.calls.tick_arrays = @ + 1,
                     !.clocks = @ \cup {clock}]
    /\ UNCHANGED <<acctVars, readerVars, poolVars, nosol, made>>

\* Mutant of DeriveTickArraysLoop: the loop runs while the current start
\* index is below the largest one, and stops before it.
DeriveTickArraysLoopExclusive ==
    /\ pda.pc = "loop"
    /\ IF pda.curr_start_tick_idx < pda.largest_start_tick_idx
       THEN LET tick_array_address ==
                   GetTickArrayAddress(WhirlpoolKey, pda.curr_start_tick_idx,
                                       nosol)
            IN  IF ~IsSome(tick_array_address)
                THEN pda' = [pda EXCEPT !.pc = "idle",
                                        !.tick_arrays = Some(None)]
                ELSE pda' = [pda EXCEPT
                               !.tick_array_pubkeys =
                                   Append(@, tick_array_address[1]),
                               !.curr_start_tick_idx =
                                   @ + pda.tick_array_width]
       ELSE pda' = [pda EXCEPT
                      !.pc = "idle",
                      !.tick_arrays = Some(Some(pda.tick_array_pubkeys))]
    /\ UNCHANGED <<acctVars, readerVars, poolVars, nosol, made>>

\* One turn of its while loop: the address for the current start index is
\* pushed, or the function returns Err when there is none; past the largest
\* start index it returns the vector.
DeriveTickArraysLoop ==
    /\ pda.pc = "loop"
    /\ IF pda.curr_start_tick_idx <= pda.largest_start_tick_idx
       THEN LET tick_array_address ==
                   GetTickArrayAddress(WhirlpoolKey, pda.curr_start_tick_idx,
                                       nosol)
            IN  IF ~IsSome(tick_array_address)
                THEN pda' = [pda EXCEPT !.pc = "idle",
                                        !.tick_arrays = Some(None)]
                ELSE pda' = [pda EXCEPT
                               !.tick_array_pubkeys =
                                   Append(@, tick_array_address[1]),
                               !.curr_start_tick_idx =
                                   @ + pda.tick_array_width]
       ELSE pda' = [pda EXCEPT
                      !.pc = "idle",
                      !.tick_arrays = Some(Some(pda.tick_array_pubkeys))]
    /\ UNCHANGED <<acctVars, readerVars, poolVars, nosol, made>>

\* A call of get_oracle_address(pool_pubkey).
DeriveOracle ==
    /\ pda.pc = "idle"
    /\ PdaCalls < MaxDerive
    /\ pda' = [pda EXCEPT
                 !.oracle = Some(GetOracleAddress(WhirlpoolKey, nosol)),
                 !.calls.oracle = @ + 1,
                 !.clocks = @ \cup {clock}]
    /\ UNCHANGED <<acctVars, readerVars, poolVars, nosol, made>>

\* A call of get_tick_array_address(pool_pubkey, start_tick_index).
DeriveTickArray ==
    /\ pda.pc = "idle"
    /\ PdaCalls < MaxDerive
    /\ pda' = [pda EXCEPT
                 !.tick_array = Some(GetTickArrayAddress(WhirlpoolKey,
                                        pda.start_tick_index, nosol)),
                 !.calls.tick_array = @ + 1,
                 !.clocks = @ \cup {clock}]
    /\ UNCHANGED <<acctVars, readerVars, poolVars, nosol, made>>

NextPda ==
    \/ DeriveTickArraysCall
    \/ DeriveTickArraysLoop
    \/ DeriveOracle
    \/ DeriveTickArray
    \/ ConstructGetAccount

SpecPda == InitPda /\ [][NextPda]_vars

\* ------------------------------------------------------------------------
\* A caller of ManagedAccount::new_initialized_from_bytes
\* ------------------------------------------------------------------------

\* The account types T the constructor is called for.
NewKinds == {"Mint", "Whirlpool"}

\* Its byte arguments, and those of the updates that follow: buffers that
\* decode as a Mint, one that decodes as a Whirlpool, one of another layout
\* and one truncated.
NewBufs ==
    {<<"Mint", 0>>, <<"Mint", 1>>,
     <<"Whirlpool", MintKeyA, MintKeyB, 64>>,
     <<"Junk", 0>>, <<"Mint">>}

\* made holds the arguments of the call, whether it was made, the account
\* it returned (None for Err) and the number of update() calls since.
InitNew ==
    /\ InitAccount
    /\ PoolUnused
    /\ nosol = {}
    /\ pda = PdaIdle
    /\ \E kind \in NewKinds, pubkey \in {MintKeyA, WhirlpoolKey},
          initial_bytes \in NewBufs, initial_time \in InitialTimes \cup UpdateTimes :
          made = [MadeIdle EXCEPT !.kind = kind,
                                  !.pubkey = pubkey,
                                  !.initial_bytes = initial_bytes,
                                  !.initial_time = initial_time]

\* ManagedAccount::<T>::new_initialized_from_bytes(pubkey, initial_bytes,
\* initial_time)
MadeNew ==
    /\ ~made.called
    /\ made' = [made EXCEPT
                  !.called = TRUE,
                  !.account = NewInitializedFromBytes(made.kind, made.pubkey,
                                 made.initial_bytes, made.initial_time)]
    /\ UNCHANGED <<acctVars, readerVars, poolVars, nosol, pda>>

\* update(new_bytes, update_time) on the account that was returned.
MadeUpdate ==
    /\ made.called
    /\ IsSome(made.account)
    /\ made.updates < MaxUpdates
    /\ \E b \in NewBufs, tm \in UpdateTimes :
          made' = [made EXCEPT
                     !.account = Some(Update(made.account[1], b, tm).account),
                     !.updates = @ + 1]
    /\ UNCHANGED <<acctVars, readerVars, poolVars, nosol, pda>>

NextNew ==
    \/ MadeNew
    \/ MadeUpdate

SpecNew == InitNew /\ [][NextNew]_vars

\* ------------------------------------------------------------------------
\* Properties of ManagedAccount
\* ------------------------------------------------------------------------

Decodes(b) == IsSome(FromBytes(acct.kind, b))

\* C1: an update() call whose buffer the decoder rejects returns Err and
\* leaves bytes, deserialized, update_slot and last_update_time as they were
\* before the call, whatever other updates and reads are in progress.
C1_RejectedUpdateChangesNothing ==
    [][\A t \in Updaters :
          (calls'[t] = calls[t] + 1 /\ ~IsSome(FromBytes(acct.kind, new_bytes'[t])))
             => /\ acct' = acct
                /\ uresult'[t] = "Err"
                /\ upc'[t] = "idle"]_vars

\* A rejected call has returned, one update is between its stores, and
\* the reader holds a guard.
C1_Witness ==
    /\ \E t \in Updaters : uresult[t] = "Err" /\ ~Decodes(new_bytes[t])
    /\ NCalls - nOk >= 2
    /\ \E t \in Updaters : upc[t] = "bytes_stored"
    /\ IsSome(rd_bytes)

\* C2: whatever updates are in flight, the value the reader got from bytes()
\* is the construction buffer or the whole buffer of an update() call whose
\* decode succeeded, and the value it got from get() is the decode of such a
\* buffer; it never holds a rejected or partly written buffer.
C2_ReadsSeeOnlyDecodedBuffers ==
    /\ IsSome(rd_bytes) => rd_bytes[1] \in okBufs /\ Decodes(rd_bytes[1])
    /\ IsSome(rd_des) =>
          \E b \in okBufs : FromBytes(acct.kind, b) = Some(rd_des[1])
    /\ acct.bytes \in okBufs
    /\ \E b \in okBufs : FromBytes(acct.kind, b) = Some(acct.deserialized)

\* The reader holds a buffer written by an update while both updaters are
\* inside update() and a rejected call has been made.
C2_Witness ==
    /\ rdpc = "have_des"
    /\ rd_bytes[1] \notin InitialBufs
    /\ \A t \in Updaters : upc[t] \notin {"idle", "decoded"}
    /\ NCalls - Cardinality({t \in Updaters : upc[t] # "idle"}) > nOk

\* C3: whenever no update() is in flight the stored deserialized value is
\* the decode of the stored bytes.
C3_QuiescentDeserializedMatchesBytes ==
    NoUpdateInFlight => FromBytes(acct.kind, acct.bytes) = Some(acct.deserialized)

\* C4: a reader that captured update_slot, called bytes() and get(), and
\* found update_slot unchanged afterwards holds a deserialized value that
\* is the decode of the bytes it holds.
C4_VersionCheckedReadIsConsistent ==
    (rdpc = "done" /\ rd_v1 = rd_v2)
       => FromBytes(acct.kind, rd_bytes[1]) = Some(rd_des[1])

\* C5: with update() calls applied one after another, whenever none is in
\* flight update_slot is 1 plus the number of calls that returned Ok and
\* bytes() is the buffer of the last such call (the construction buffer if
\* there is none); update_slot never decreases.
C5_SequentialVersionAndBytes ==
    /\ [](NoUpdateInFlight =>
             /\ acct.update_slot = 1 + nOk
             /\ acct.bytes = lastOk)
    /\ [][acct'.update_slot >= acct.update_slot]_vars

\* Two calls returned Ok, then a rejected call returned Err.
C5_Witness ==
    /\ NoUpdateInFlight
    /\ nOk = 2
    /\ NCalls = 3
    /\ \E t \in Updaters : uresult[t] = "Err"
    /\ acct.update_slot = 3
    /\ acct.bytes # <<"Mint", 0>>

\* C6: no operation waits for another.  A reader about to call bytes() or
\* get() can do so in every state, and every update() in flight can take
\* its next step in every state, whatever guards the reader holds and
\* wherever the other update is.
C6_NoOperationBlocks ==
    /\ rdpc = "have_v1" => ENABLED ReadBytes
    /\ rdpc = "have_bytes" => ENABLED ReadGet
    /\ \A t \in Updaters : upc[t] # "idle" => ENABLED UpdateStep(t)

\* The reader holds both guards while one update is about to store the
\* deserialized value and the other is about to store the bytes.
C6_Witness ==
    /\ IsSome(rd_bytes) /\ IsSome(rd_des)
    /\ \E t \in Updaters : upc[t] = "bytes_stored"
    /\ \E t \in Updaters : upc[t] = "decoded"

\* ------------------------------------------------------------------------
\* Properties of OrcaWhirlpool
\* ------------------------------------------------------------------------

\* The pool as new_initialized_from_rpc returned it.
BuiltPool == built[1].pool

\* C7: whatever refresh() calls have run, returned Ok or Err, or overlap,
\* accounts() lists the same member keys in the same order as at
\* construction, each member of the kind it was; only bytes, deserialized,
\* update_slot and last_update_time of a member differ.
C7_MembershipIsFixed ==
    IsSome(pool) =>
       /\ AccountKeys(pool[1]) = AccountKeys(BuiltPool)
       /\ \A i \in 1..Len(Accounts(pool[1])) :
             Accounts(pool[1])[i].kind = Accounts(BuiltPool)[i].kind

\* Two refresh() calls overlap in their loops, one earlier member has been
\* updated, and the whirlpool now stores a tick spacing other than the one
\* the tick arrays were derived from.
C7_Witness ==
    /\ IsSome(pool)
    /\ \A r \in Refreshers : rf[r].pc = "applying" /\ rf[r].pos > 2
    /\ pool[1].whirlpool.deserialized.tick_spacing
          # BuiltPool.whirlpool.deserialized.tick_spacing
    /\ pool[1].mint_a.update_slot > 1

\* C8: every get_multiple_accounts call, of the construction and of
\* refresh(), asks for at most max_accounts_per_rpc_call() keys.
C8_EveryCallWithinLimit ==
    lastReq.op # "none" => Len(lastReq.keys) <= limit

\* The refresh() call whose loop is running or has last returned, and the
\* members as they are now.
Refreshed == Accounts(pool[1])

EntryDecodes(i) ==
    /\ IsSome(rf[1].seen[i])
    /\ IsSome(FromBytes(rf[1].snapshot[i].kind, rf[1].seen[i][1]))

EntryRejected(i) ==
    /\ IsSome(rf[1].seen[i])
    /\ ~IsSome(FromBytes(rf[1].snapshot[i].kind, rf[1].seen[i][1]))

\* C9: a member whose entry in the response is None has the bytes,
\* deserialized value, update_slot and last_update_time it had when
\* refresh() was called, and refresh() returns Err only if the call to the
\* provider failed or an entry that is present did not decode: a response
\* whose loop has run to the end returns Ok whichever entries are None.
C9_AbsentMembersUntouched ==
    IsSome(pool) =>
       /\ \A i \in 1..Len(rf[1].seen) :
             ~IsSome(rf[1].seen[i]) => Refreshed[i] = rf[1].snapshot[i]
       /\ (rf[1].result = "Err" /\ Len(rf[1].seen) > 0)
             => EntryRejected(Len(rf[1].seen))
       /\ (rf[1].pc = "idle" /\ Len(rf[1].seen) > 0
             /\ ~EntryRejected(Len(rf[1].seen)))
             => rf[1].result = "Ok"

\* refresh() has returned Ok on a response in which some entries were None
\* and some were present.
C9_Witness ==
    /\ IsSome(pool)
    /\ rf[1].pc = "idle" /\ rf[1].result = "Ok"
    /\ Len(rf[1].seen) = Len(Refreshed)
    /\ \E i, j \in 1..Len(rf[1].seen) :
          ~IsSome(rf[1].seen[i]) /\ IsSome(rf[1].seen[j])

\* C10: when the bytes returned for a member do not decode, refresh() has
\* returned Err at that member; the members before it whose entries were
\* present hold the new bytes, their decode and the update time, with
\* update_slot one higher; the failing member and all members after it
\* are as they were when refresh() was called.
C10_DecodeFailureStopsRefresh ==
    IsSome(pool) =>
       \A i \in 1..Len(rf[1].seen) :
          EntryRejected(i) =>
             /\ rf[1].pc = "idle"
             /\ rf[1].result = "Err"
             /\ i = Len(rf[1].seen)
             /\ \A j \in 1..(i - 1) :
                   IsSome(rf[1].seen[j]) =>
                      /\ Refreshed[j].bytes = rf[1].seen[j][1]
                      /\ Refreshed[j].deserialized =
                            FromBytes(Refreshed[j].kind, rf[1].seen[j][1])[1]
                      /\ Refreshed[j].update_slot =
                            rf[1].snapshot[j].update_slot + 1
                      /\ Refreshed[j].last_update_time = rf[1].update_time
             /\ \A j \in i..Len(rf[1].snapshot) :
                   Refreshed[j] = rf[1].snapshot[j]

\* refresh() has returned Err at a member that is neither the first nor the
\* last, after updating a member before it.
C10_Witness ==
    /\ IsSome(pool)
    /\ rf[1].result = "Err"
    /\ Len(rf[1].seen) > 2
    /\ Len(rf[1].seen) < Len(rf[1].snapshot)
    /\ EntryRejected(Len(rf[1].seen))
    /\ \E j \in 1..(Len(rf[1].seen) - 1) : EntryDecodes(j)

\* ------------------------------------------------------------------------
\* Properties of OrcaWhirlpool::new_initialized_from_rpc
\* ------------------------------------------------------------------------

\* new_initialized_from_rpc has returned.
CtorReturned == ctor.pc \in {"ready", "failed"}

\* The provider returned a record for the key, in some chunk.
Fetched(k) == k \in DOMAIN ctor.account_map

FetchedDecodes(k) ==
    /\ Fetched(k)
    /\ IsSome(FromBytes(KindAt(k), ctor.account_map[k].bytes))

NotFetched(k) == ~Fetched(k)

\* Every provider call was answered, the whirlpool decoded, and the records
\* of its two mints, which are two accounts, were returned and decode.
PrimaryAndMintsUsable ==
    /\ CtorReturned
    /\ ~ctor.fetch_failed
    /\ IsSome(ctor.whirlpool_data)
    /\ ctor.whirlpool_data[1].token_mint_a # ctor.whirlpool_data[1].token_mint_b
    /\ FetchedDecodes(ctor.whirlpool_data[1].token_mint_a)
    /\ FetchedDecodes(ctor.whirlpool_data[1].token_mint_b)

\* One FailedAccount per derived optional address with no record: the
\* oracle's first, then the tick arrays' in derivation order.
ExpectedFailures ==
    LET absent == SelectSeq(ctor.tick_arrays_pubkeys, NotFetched)
    IN  (IF IsSome(ctor.oracle_pubkey) /\ NotFetched(ctor.oracle_pubkey[1])
         THEN <<[pubkey |-> ctor.oracle_pubkey[1], account_type |-> "Oracle"]>>
         ELSE <<>>)
        \o [i \in 1..Len(absent) |->
              [pubkey |-> absent[i], account_type |-> "TickArray"]]

\* The pool that was returned holds a cache for exactly the optional
\* addresses whose records were returned, and the failures list the rest.
OptionalDependentsAccounted ==
    /\ IsSome(BuiltPool.oracle)
          <=> (IsSome(ctor.oracle_pubkey) /\ Fetched(ctor.oracle_pubkey[1]))
    /\ [i \in 1..Len(BuiltPool.tick_arrays) |-> BuiltPool.tick_arrays[i].pubkey]
          = SelectSeq(ctor.tick_arrays_pubkeys, Fetched)
    /\ built[1].failures = ExpectedFailures
    /\ Len(BuiltPool.tick_arrays)
          + Len(SelectSeq(ctor.tick_arrays_pubkeys, NotFetched))
          = Len(ctor.tick_arrays_pubkeys)

\* C11: when the whirlpool and both mint records are present and decode,
\* the construction returns a pool, in which the oracle is Some iff its
\* record was returned, tick_arrays are the derived addresses that were
\* returned, in order, and the failures are one per absent optional address.
C11_PresentPrimaryAndMintsBuildPool ==
    PrimaryAndMintsUsable =>
       /\ ctor.pc = "ready"
       /\ IsSome(built)
       /\ OptionalDependentsAccounted

\* Nothing was returned: the caller holds no pool and no failure list.
NothingBuilt ==
    /\ ctor.pc = "failed"
    /\ built = None
    /\ pool = None

\* C12: the construction returns Err, and neither a pool nor failures, when
\* get_account failed, when the whirlpool's bytes do not decode, and when
\* the record of mint A or of mint B is absent or does not decode; in the
\* first two cases no get_multiple_accounts call has been issued.
C12_UnusablePrimaryOrMintAborts ==
    /\ (ctor.pc # "start" /\ ~IsSome(ctor.whirlpool_response))
          => (NothingBuilt /\ lastReq = NoRequest)
    /\ (ctor.pc # "start" /\ IsSome(ctor.whirlpool_response)
          /\ ~IsSome(FromBytes("Whirlpool", ctor.whirlpool_response[1])))
          => (NothingBuilt /\ lastReq = NoRequest)
    /\ (CtorReturned /\ IsSome(ctor.whirlpool_data)
          /\ (~FetchedDecodes(ctor.whirlpool_data[1].token_mint_a)
              \/ ~FetchedDecodes(ctor.whirlpool_data[1].token_mint_b)))
          => NothingBuilt

\* Every call was answered and every record but that of mint B was
\* returned and decodes; the construction has returned.
C12_Witness ==
    /\ CtorReturned
    /\ ~ctor.fetch_failed
    /\ IsSome(ctor.whirlpool_data)
    /\ ctor.fetched = Len(ctor.pubkeys_to_fetch)
    /\ Len(ctor.pubkeys_to_fetch) = 5
    /\ NotFetched(MintKeyB)
    /\ \A k \in {MintKeyA, ctor.oracle_pubkey[1]} : FetchedDecodes(k)
    /\ \A i \in 1..2 : FetchedDecodes(ctor.tick_arrays_pubkeys[i])

\* The optional addresses derived for the pool: the oracle's, if there is
\* one, and the tick arrays'.
OptionalKeys ==
    {ctor.oracle_pubkey[i] : i \in 1..Len(ctor.oracle_pubkey)}
       \cup {ctor.tick_arrays_pubkeys[i] : i \in 1..Len(ctor.tick_arrays_pubkeys)}

\* C13: when the record of the oracle or of a tick array is returned but
\* its bytes do not decode, the construction still returns a pool, without
\* that dependent; only the whirlpool and the mints abort it.
C13_UndecodableOptionalDegrades ==
    (PrimaryAndMintsUsable
       /\ \E k \in OptionalKeys : Fetched(k) /\ ~FetchedDecodes(k))
       => /\ ctor.pc = "ready"
          /\ IsSome(built)
          /\ \A k \in OptionalKeys :
                (Fetched(k) /\ ~FetchedDecodes(k))
                   => \A i \in 1..Len(Accounts(BuiltPool)) :
                         Accounts(BuiltPool)[i].pubkey # k

\* try_find_program_address finds no address for the oracle of the pool,
\* or for one of its tick arrays.
OracleDerivationFails == ~IsSome(GetOracleAddress(WhirlpoolKey, nosol))

TickArrayDerivationFails ==
    /\ IsSome(ctor.whirlpool_data)
    /\ ~IsSome(GetTickArrayAddresses(WhirlpoolKey,
                  ctor.whirlpool_data[1].tick_spacing, nosol))

\* C14: a derivation failure for the oracle or for a tick array does not
\* make the construction return Err: once the whirlpool has decoded the
\* construction goes on to fetch the dependents that do have an address.
C14_DerivationFailureNotPropagated ==
    (ctor.pc # "start" /\ IsSome(ctor.whirlpool_data)
       /\ (OracleDerivationFails \/ TickArrayDerivationFails))
       => /\ lastReq # NoRequest \/ ctor.pc = "fetching"
          /\ OracleDerivationFails => ctor.oracle_pubkey = None

\* ------------------------------------------------------------------------
\* Properties of OrcaWhirlpool::refresh, continued
\* ------------------------------------------------------------------------

\* C15: a refresh() whose get_multiple_accounts call fails returns Err in
\* that step, having issued that one call and no other, and with every member
\* of the pool as it was; and no provider call is issued unless refresh() is
\* called again.
C15_FailedFetchChangesNothing ==
    [][/\ (nRefresh' = nRefresh + 1 /\ ~rf'[1].fetch_ok)
            => /\ rf'[1].pc = "idle"
               /\ rf'[1].result = "Err"
               /\ pool' = pool
               /\ clock' = clock + 1
               /\ lastReq' = [op |-> "refresh", keys |-> AccountKeys(pool[1])]
       /\ (ctor.pc = "ready" /\ nRefresh' = nRefresh)
            => (clock' = clock /\ lastReq' = lastReq)]_vars

\* A refresh() has updated members, and the next one has failed at the
\* provider.
C15_Witness ==
    /\ nRefresh = 2
    /\ rf[1].pc = "idle"
    /\ rf[1].result = "Err"
    /\ ~rf[1].fetch_ok
    /\ pool[1].whirlpool.update_slot > 1
    /\ pool[1].mint_b.update_slot > 1

\* ------------------------------------------------------------------------
\* Properties of the address derivation
\* ------------------------------------------------------------------------

\* The vector the last get_tick_array_addresses call returned, when it
\* returned one.
TickArraysReturned == IsSome(pda.tick_arrays) /\ IsSome(pda.tick_arrays[1])

\* The start index of its i-th address, and their number.
StartIndex(i) == pda.tick_arrays[1][1][i][3]

NumStartIndices == Len(pda.tick_arrays[1][1])

\* C16: with W = 88 * tick_spacing and M = 443636 the first start index is
\* the multiple of W with first <= -M < first + W, that is floor(-M / W) * W,
\* the last is the multiple of W with last <= M < last + W, and consecutive
\* start indices differ by W; for W = 5632 the first is -79 * 5632.
C16_StartIndicesSpanTheRange ==
    TickArraysReturned =>
       LET W == 88 * pda.tick_spacing
           M == 443636
           n == NumStartIndices
       IN  /\ n >= 1
           /\ StartIndex(1) % W = 0
           /\ StartIndex(1) <= -M /\ -M < StartIndex(1) + W
           /\ StartIndex(n) % W = 0
           /\ StartIndex(n) <= M /\ M < StartIndex(n) + W
           /\ \A i \in 1..(n - 1) : StartIndex(i + 1) = StartIndex(i) + W
           /\ W = 5632 => StartIndex(1) = -79 * 5632

\* get_tick_array_addresses has returned for tick spacing 64.
C16_Witness ==
    /\ TickArraysReturned
    /\ pda.tick_spacing = 64
    /\ pda.pc = "idle"
    /\ NumStartIndices = 158
    /\ StartIndex(1) = -444928
    /\ StartIndex(158) = 439296

C18_ConstructorPostcondition ==
    made.called =>
       IF ~IsSome(FromBytes(made.kind, made.initial_bytes))
       THEN made.account = None
       ELSE /\ IsSome(made.account)
            /\ made.account[1].pubkey = made.pubkey
            /\ made.updates = 0 =>
                  /\ made.account[1].update_slot = 1
                  /\ made.account[1].bytes = made.initial_bytes
                  /\ made.account[1].deserialized
                        = FromBytes(made.kind, made.initial_bytes)[1]
                  /\ made.account[1].last_update_time = made.initial_time

\* A Whirlpool account was constructed; of three update() calls since, two
\* returned Ok.
C18_Witness ==
    /\ made.called
    /\ made.kind = "Whirlpool"
    /\ IsSome(made.account)
    /\ made.updates = 3
    /\ made.account[1].update_slot = 3
    /\ made.account[1].last_update_time # made.initial_time


\* ------------------------------------------------------------------------
\* Properties of the pairing in OrcaWhirlpool::refresh
\* ------------------------------------------------------------------------

\* The key list of the pool, written out member by member.
MemberKeysInOrder ==
    <<pool[1].whirlpool.pubkey, pool[1].mint_a.pubkey, pool[1].mint_b.pubkey>>
       \o [i \in 1..Len(pool[1].tick_arrays) |-> pool[1].tick_arrays[i].pubkey]
       \o [i \in 1..Len(pool[1].oracle) |-> pool[1].oracle[i].pubkey]

\* C19: refresh() asks for the keys of the whirlpool, mint A, mint B, the
\* tick arrays by ascending start index and then the oracle if there is
\* one, in that order; and once refresh() has returned Ok on a response
\* with one entry per requested key in request order, every member whose
\* entry was present holds the bytes the provider returned for the
\* member's own key, and its update_slot is one above what it was when
\* refresh() was called.
C19_RequestOrderAndPositionalPairing ==
    IsSome(pool) =>
       /\ \A i, j \in 1..Len(pool[1].tick_arrays) :
             i < j => pool[1].tick_arrays[i].pubkey[3]
                         < pool[1].tick_arrays[j].pubkey[3]
       /\ lastReq.op = "refresh" => lastReq.keys = MemberKeysInOrder
       /\ (rf[1].pc = "idle" /\ rf[1].result = "Ok")
             => /\ Len(rf[1].seen) = Len(MemberKeysInOrder)
                /\ \A i \in 1..Len(rf[1].seen) :
                      IsSome(rf[1].seen[i]) =>
                         /\ rf[1].seen[i] \in
                               EntryChoices(Refreshed[i].pubkey,
                                            rf[1].update_time)
                         /\ Refreshed[i].bytes = rf[1].seen[i][1]
                         /\ Refreshed[i].update_slot =
                               rf[1].snapshot[i].update_slot + 1

\* refresh() has returned Ok on a pool with two tick arrays and an oracle,
\* and the response held bytes for every member.
C19_Witness ==
    /\ IsSome(pool)
    /\ rf[1].pc = "idle" /\ rf[1].result = "Ok"
    /\ Len(pool[1].tick_arrays) >= 2
    /\ Len(pool[1].oracle) = 1
    /\ Len(rf[1].seen) = Len(Refreshed)
    /\ \A i \in 1..Len(rf[1].seen) : IsSome(rf[1].seen[i])


\* ------------------------------------------------------------------------
\* Generations of the two slots of a ManagedAccount
\* ------------------------------------------------------------------------

\* C20: with one update() in flight at a time and any readers, the bytes
\* slot has taken as many stores as the deserialized slot or one more,
\* update_slot - 1 is at most the number of stores the deserialized slot
\* has taken, and a reader that calls get() first and bytes() second holds
\* bytes at least as new as the deserialized value it holds.
C20_BytesNeverOlderThanDecoded ==
    /\ acct.deserialized_gen <= acct.bytes_gen
    /\ acct.bytes_gen <= acct.deserialized_gen + 1
    /\ acct.update_slot - 1 <= acct.deserialized_gen
    /\ \A r \in GetFirstReaders :
          rg[r].pc = "have_both" => rg[r].deserialized_gen <= rg[r].bytes_gen

\* A reader called get() before an update() stored anything and bytes()
\* after the update had swapped the bytes slot: it holds the old
\* deserialized value and the new bytes, while update_slot is not raised yet.
C20_Witness ==
    /\ \E r \in GetFirstReaders :
          /\ rg[r].pc = "have_both"
          /\ rg[r].deserialized_gen = 0
          /\ rg[r].bytes_gen = 1
          /\ rg[r].bytes[1] # <<"Mint", 0>>
    /\ acct.deserialized_gen = 1
    /\ acct.bytes_gen = 1
    /\ acct.update_slot = 1


BoundaryTicks(W) ==
    {c \in {-443636, -443635, -W - 1, -W, -W + 1, -1, 0, 1,
            W - 1, W, W + 1, 443635, 443636} :
        -443636 <= c /\ c <= 443636}

\* C22: with W = 88 * tick_spacing and M = 443636, the i-th start index is
\* (floor(-M / W) + i - 1) * W and there are floor(M / W) - floor(-M / W) + 1
\* of them, which are the values floor(c / W) * W takes for c in -M..M, each
\* once; a tick c of the range lies in the array that starts at
\* floor(c / W) * W, which is in the list; and for W > M the list is -W, 0.
\* (\div is floor division.)
C22_StartIndicesPartitionTheRange ==
    TickArraysReturned =>
       LET W == 88 * pda.tick_spacing
           M == 443636
           lo == (-M) \div W
           hi == M \div W
           n == NumStartIndices
       IN  /\ n = hi - lo + 1
           /\ \A i \in 1..n : StartIndex(i) = (lo + i - 1) * W
           /\ \A c \in BoundaryTicks(W) :
                 LET i == (c \div W) - lo + 1
                 IN  /\ 1 <= i /\ i <= n
                     /\ StartIndex(i) = (c \div W) * W
                     /\ StartIndex(i) <= c /\ c < StartIndex(i) + W
           /\ W > M => /\ n = 2
                       /\ StartIndex(1) = -W
                       /\ StartIndex(2) = 0

\* get_tick_array_addresses has returned for tick spacing 5042, the
\* smallest with W > M: the list is -W, 0.
C22_Witness ==
    /\ TickArraysReturned
    /\ pda.pc = "idle"
    /\ pda.tick_spacing = 5042
    /\ NumStartIndices = 2
    /\ StartIndex(1) = -443696
    /\ StartIndex(2) = 0


\* ------------------------------------------------------------------------
\* The fetch loop of new_initialized_from_rpc
\* ------------------------------------------------------------------------

\* The chunks requested so far, one after another.
RECURSIVE RequestedKeys(_)
RequestedKeys(i) ==
    IF i > Len(ctor.requests)
    THEN <<>>
    ELSE ctor.requests[i] \o RequestedKeys(i + 1)

\* The fetch loop has run to its end: no get_multiple_accounts call failed.
FetchLoopDone ==
    /\ CtorReturned
    /\ IsSome(ctor.whirlpool_data)
    /\ Len(ctor.pubkeys_to_fetch) > 0
    /\ ~ctor.fetch_failed

\* C23: with L the provider's limit and n the length of pubkeys_to_fetch
\* (two mints, the oracle if it has an address, the tick arrays), the
\* chunks requested so far are consecutive slices of the list from its
\* start, each of L keys except a shorter last one, so that no position of
\* the list is requested twice; and once the fetch loop has run to its end
\* there have been ceil(n / L) calls and they cover the whole list.
C23_ChunksPartitionTheKeyList ==
    LET n == Len(ctor.pubkeys_to_fetch)
        calls_made == Len(ctor.requests)
    IN  /\ RequestedKeys(1) =
              SubSeq(ctor.pubkeys_to_fetch, 1, Len(RequestedKeys(1)))
        /\ Len(RequestedKeys(1)) <= n
        /\ \A i \in 1..calls_made :
              /\ Len(ctor.requests[i]) >= 1
              /\ Len(ctor.requests[i]) <= limit
              /\ i < calls_made => Len(ctor.requests[i]) = limit
        /\ calls_made <= (n + limit - 1) \div limit
        /\ FetchLoopDone =>
              /\ calls_made = (n + limit - 1) \div limit
              /\ RequestedKeys(1) = ctor.pubkeys_to_fetch

\* A list of five keys was fetched from a provider of limit 2 in three
\* calls, the last of one key, and the pool was built.
C23_Witness ==
    /\ ctor.pc = "ready"
    /\ limit = 2
    /\ Len(ctor.pubkeys_to_fetch) = 5
    /\ Len(ctor.requests) = 3
    /\ Len(ctor.requests[3]) = 1


\* ------------------------------------------------------------------------
\* last_update_time of the members of a pool
\* ------------------------------------------------------------------------

\* The j-th get_multiple_accounts call of the construction asked for key k.
RequestedIn(j, k) ==
    \E x \in 1..Len(ctor.requests[j]) : ctor.requests[j][x] = k

\* C24: in the pool as new_initialized_from_rpc returned it the whirlpool's
\* last_update_time is the response_time of the get_account call, and each
\* other member's is the response_time of a get_multiple_accounts call that
\* asked for the member's key and returned the bytes the member holds;
\* during and after a refresh() every member updated from the response
\* has the response_time of the refresh's one call, and every member whose
\* entry was None, or was not applied, has the time it had before.
C24_TimesAreResponseTimes ==
    /\ ctor.pc = "ready" =>
          LET p == built[1].pool
          IN  /\ p.whirlpool.last_update_time = ctor.whirlpool_time
              /\ \A i \in 2..Len(Accounts(p)) :
                    LET m == Accounts(p)[i]
                    IN  \E j \in 1..Len(ctor.requests) :
                           /\ RequestedIn(j, m.pubkey)
                           /\ m.last_update_time = ctor.request_times[j]
                           /\ m.bytes =
                                 <<m.kind,
                                   ChainData(m.pubkey, ctor.request_times[j])>>
    /\ IsSome(pool) =>
          \A i \in 1..Len(rf[1].seen) :
             Refreshed[i].last_update_time =
                IF EntryDecodes(i)
                THEN rf[1].update_time
                ELSE rf[1].snapshot[i].last_update_time

\* A pool was built from a provider of limit 2, its mints and its tick
\* arrays answered by different calls, and a refresh() has then returned
\* Ok on a response with entries that were present and entries that were
\* None.
C24_Witness ==
    /\ ctor.pc = "ready"
    /\ limit = 2
    /\ Len(built[1].pool.tick_arrays) >= 1
    /\ built[1].pool.mint_a.last_update_time
          # built[1].pool.tick_arrays[1].last_update_time
    /\ rf[1].pc = "idle" /\ rf[1].result = "Ok"
    /\ \E i, j \in 1..Len(rf[1].seen) :
          /\ EntryDecodes(i)
          /\ ~IsSome(rf[1].seen[j])
          /\ Refreshed[i].last_update_time
                # Refreshed[j].last_update_time


\* ------------------------------------------------------------------------
\* update_slot and last_update_time under concurrent updates
\* ------------------------------------------------------------------------

\* C25: with update() calls running concurrently, once all have returned
\* update_slot is 1 plus the number of calls that returned Ok, and in every
\* state update_slot is at most 1 plus the number of updates that have
\* stored both the bytes and the deserialized value.
C25_VersionCountsSuccessfulUpdates ==
    /\ NoUpdateInFlight => acct.update_slot = 1 + nOk
    /\ acct.update_slot <= 1 + acct.deserialized_gen
    /\ acct.update_slot >= 1 + nOk

\* Two update() calls are in flight after a rejected one: both have stored
\* both slots, one has incremented update_slot and the other has not.
C25_Witness ==
    /\ NCalls = 3
    /\ nOk = 0
    /\ \E t, u \in Updaters :
          upc[t] = "slot_added" /\ upc[u] = "deserialized_stored"
    /\ acct.deserialized_gen = 2
    /\ acct.update_slot = 2


\* C26: whenever no update() is in flight, last_update_time is the time
\* argument of the update() call whose bytes are stored, or the time given
\* at construction when no call has stored bytes; also after update()
\* calls that ran concurrently.
C26_QuiescentTimeIsThatOfStoredBytes ==
    NoUpdateInFlight => acct.last_update_time = acct.bytes_time


\* ------------------------------------------------------------------------
\* A whirlpool whose two mints are one account
\* ------------------------------------------------------------------------

\* Every provider call was answered, the whirlpool decoded, the records of
\* the keys it names as mint A and mint B were returned and decode, and so
\* does every record returned for the oracle or a tick array.
EveryReturnedRecordUsable ==
    /\ CtorReturned
    /\ ~ctor.fetch_failed
    /\ IsSome(ctor.whirlpool_data)
    /\ FetchedDecodes(ctor.whirlpool_data[1].token_mint_a)
    /\ FetchedDecodes(ctor.whirlpool_data[1].token_mint_b)
    /\ \A k \in OptionalKeys : Fetched(k) => FetchedDecodes(k)

\* C27: the construction returns a pool whenever the records of the
\* whirlpool's two mints were returned and decode and the optional records
\* that were returned decode, whatever the whirlpool names as its mints,
\* the same key twice included.
C27_ConstructionSucceedsForEveryWhirlpool ==
    EveryReturnedRecordUsable => (ctor.pc = "ready" /\ IsSome(built))


\* ------------------------------------------------------------------------
\* refresh() on a response that is shorter or longer than the request
\* ------------------------------------------------------------------------

\* C28: when the response holds fewer entries than there were keys,
\* refresh() pairs the entries with the first members in order and
\* processes no more pairs than there are entries; every member past the
\* last entry has the bytes, deserialized value, update_slot and
\* last_update_time it had when refresh() was called; a member with an
\* entry that was present holds that entry's bytes; refresh() returns Ok
\* unless an entry that was present did not decode; and when there are
\* more entries than members those past the last member are not looked at.
C28_ShortResponseUpdatesAPrefix ==
    (IsSome(pool) /\ rf[1].fetch_ok) =>
       LET paired == Min(rf[1].len, Len(rf[1].snapshot))
       IN  /\ Len(rf[1].seen) <= paired
           /\ \A i \in (Len(rf[1].seen) + 1)..Len(rf[1].snapshot) :
                 Refreshed[i] = rf[1].snapshot[i]
           /\ \A i \in 1..Len(rf[1].seen) :
                 IF EntryDecodes(i)
                 THEN /\ Refreshed[i].bytes = rf[1].seen[i][1]
                      /\ rf[1].seen[i] \in
                            EntryChoices(Refreshed[i].pubkey,
                                         rf[1].update_time)
                 ELSE Refreshed[i] = rf[1].snapshot[i]
           /\ (rf[1].pc = "idle"
                 /\ \A i \in 1..Len(rf[1].seen) : ~EntryRejected(i))
                 => (rf[1].result = "Ok" /\ Len(rf[1].seen) = paired)

\* refresh() has returned Ok on a response of two entries, both present,
\* for a pool of more than three members: the first two members were
\* updated and the others were not.
C28_Witness ==
    /\ IsSome(pool)
    /\ rf[1].pc = "idle" /\ rf[1].result = "Ok"
    /\ rf[1].len = 2
    /\ Len(rf[1].snapshot) > 3
    /\ Len(rf[1].seen) = 2
    /\ EntryDecodes(1) /\ EntryDecodes(2)
    /\ Refreshed[2].update_slot = rf[1].snapshot[2].update_slot + 1
    /\ Refreshed[3] = rf[1].snapshot[3]


\* ------------------------------------------------------------------------
\* get_tick_array_addresses over all of u16
\* ------------------------------------------------------------------------

\* The values of an i32.
InI32(x) == -2147483647 - 1 <= x /\ x <= 2147483647

\* C29: for every tick_spacing of a u16 a call of get_tick_array_addresses
\* comes to a result: no arithmetic fault ends it, the width and the
\* running start index stay within i32, and its loop ends, the width being
\* positive and the start index never more than one width past the
\* largest start index.
C29_DerivationAlwaysReturns ==
    /\ pda.pc # "panicked"
    /\ InI32(pda.tick_array_width)
    /\ InI32(pda.curr_start_tick_idx)
    /\ pda.pc = "loop" =>
          /\ pda.tick_array_width > 0
          /\ pda.curr_start_tick_idx
                <= pda.largest_start_tick_idx + pda.tick_array_width

=============================================================================
